---- MODULE Spec2Model ----
(***************************************************************************)
(* LSM9DS1 SPI driver (final revision, src/unnamed/part_000 lines 480-788) *)
(* modelled as a state machine over the MSP432 registers it touches        *)
(* (P6SEL0/P6DIR/P6OUT, eUSCI_B1 CTLW0/BRW/TXBUF/RXBUF/STATW), its global   *)
(* RDxBuffer, and the position of the executing function.                  *)
(*                                                                         *)
(* Three specifications share the driver's actions:                        *)
(*   Spec     the driver as the program uses it: LSM9DS1_Init, then any    *)
(*            sequence of calls of the public functions; every byte        *)
(*            shifted in is arbitrary (drawn from RxBytes).                *)
(*   SpecSim  LSM9DS1_Init, then a write_SPI followed by a read_SPI of the *)
(*            same register, against a simulated LSM9DS1 register file.    *)
(*   SpecNum  the read path's byte assembly and the accessors' arithmetic  *)
(*            applied to every pair of received bytes.                     *)
(***************************************************************************)
EXTENDS Integers, Sequences, FiniteSets, TLC

----------------------------------------------------------------------------
(* Register addresses (the #defines of the final revision), in decimal.    *)

WHO_AM_I == 15
CTRL_REG1_G == 16
OUT_TEMP_L == 21
OUT_X_L_G == 24
OUT_Y_L_G == 26
OUT_Z_L_G == 28
CTRL_REG5_XL == 31
CTRL_REG6_XL == 32
CTRL_REG8 == 34
OUT_X_L_XL == 40
OUT_Y_L_XL == 42
OUT_Z_L_XL == 44
CTRL_REG1_M == 32
CTRL_REG3_M == 34
CTRL_REG4_M == 35
OUT_X_L_M == 40
OUT_Y_L_M == 42
OUT_Z_L_M == 44

(* enum ss_t {AG, M, A, G} *)
ss_t == {"AG", "M", "A", "G"}

(* The typed accessors LSM9DS1_XA .. LSM9DS1_TMP.                           *)
Accessors == {"XA", "YA", "ZA", "XG", "YG", "ZG", "XM", "YM", "ZM", "TMP"}

(* the values of a uint8_t, and the 7-bit register addresses *)
Bytes == 0..255
Addr7 == 0..127

(* Bytes the bus shifts in under Spec (any byte can arrive; these cover    *)
(* zero, the idle patterns, both signs and the documented examples).       *)
RxBytes == {0, 1, 14, 18, 52, 96, 104, 128, 161, 255}

(* Level the data-in line reads while no device drives it.                 *)
IdleLevels == {0, 255}

(* Data bytes the register round trip writes.                              *)
WrBytes == {1, 90, 165}

(* Values of bytesToRead the round trip passes to read_SPI: the two the    *)
(* driver itself uses, and one below and one above them.                   *)
ByteCounts == {0, 1, 2, 3}

----------------------------------------------------------------------------
(* C integer arithmetic.                                                   *)

RECURSIVE BitOr(_, _)
BitOr(a, b) ==
    IF a = 0 THEN b
    ELSE IF b = 0 THEN a
    ELSE (IF a % 2 = 1 \/ b % 2 = 1 THEN 1 ELSE 0) + 2 * BitOr(a \div 2, b \div 2)

(* conversion to uint8_t / uint16_t *)
ToUint8(v) == v % 256
ToUint16(v) == v % 65536

(* conversion to int16_t (two's complement, modulo 2^16) *)
ToInt16(v) == IF v % 65536 >= 32768 THEN (v % 65536) - 65536 ELSE v % 65536

(* mutant of CDiv: the quotient rounded toward minus infinity *)
CDivFloor(n, d) == n \div d

(* C's integer division: the quotient truncated toward zero (d > 0) *)
CDiv(n, d) == IF n >= 0 THEN n \div d ELSE -((-n) \div d)

----------------------------------------------------------------------------
VARIABLES
    pc,         \* position of the executing code
    retpc,      \* where read_SPI / write_SPI returns to
    op,         \* the public function called last ("none" before the first)
    dev,        \* read_SPI / write_SPI parameter device
    addr,       \* read_SPI / write_SPI parameter address
    par,        \* read_SPI parameter bytesToRead, write_SPI parameter data
    P6SEL0,     \* set of bits of P6SEL0 that are 1
    P6DIR,      \* set of bits of P6DIR that are 1
    P6OUT,      \* set of bits of P6OUT that are 1
    swrst,      \* EUSCI_B1->CTLW0 bit UCSWRST
    ctlw0,      \* the other bits of EUSCI_B1->CTLW0
    brw,        \* EUSCI_B1->BRW
    TXBUF,      \* EUSCI_B1->TXBUF
    RXBUF,      \* EUSCI_B1->RXBUF
    busy,       \* EUSCI_B1->STATW bit UCBUSY
    RDxBuffer,  \* the global uint16_t RDxBuffer
    sraw,       \* the accessor's local int16_t before scaling (0 until set)
    retval,     \* value the public function returns (0 until it returns)
    wire,       \* bytes put on the bus in this read_SPI/write_SPI call, each
                \* with the chip-selects driven low at that moment and the
                \* byte SPI_transfer returned (-1 while the caller has not
                \* taken it; the return value of an address transfer is
                \* discarded)
    txns,       \* read_SPI/write_SPI calls made by the current public function
    regs,       \* simulated device: registers written so far
    frame,      \* simulated device: state of the current SPI frame
    test,       \* SpecSim: the round trip under test
    nb0, nb1,   \* SpecNum: the two received bytes
    wasInterrupt, \* final_main.c: volatile bool wasInterrupt
    P1IFG,      \* P1IFG, as the set of its bits that are 1
    ie,         \* the port 1 interrupt is enabled (P1IE bit 5, NVIC, PRIMASK)
    staleHigh,  \* history: RDxBuffer had a nonzero high byte when the
                \* current public call began
    irqInTxn,   \* history: PORT1_IRQHandler ran since the current
                \* read_SPI/write_SPI call began
    mpc,        \* position of main() outside the driver
    state,      \* main's local enum states state
    prevState,  \* main's local prevState
    isNewState, \* main's local isNewState
    x, y, z,    \* final_main.c: volatile int16_t x, y, z
    title,      \* the view title on the OLED ("none" before the OLED is
                \* started, "blank" after a clear)
    shown,      \* the values handed to the display in this loop iteration
                \* (empty until the iteration's display call)
    hk,         \* history: entry housekeeping runs since state last changed
    iterCur,    \* history: state at the head of this loop iteration
    iterPrev,   \* history: state at the head of the previous iteration
                \* ("boot" when there is none)
    src,        \* history: accessors called in this iteration, in order
    got,        \* history: values they returned, in order
    lastMag,    \* history: the Y and Z values of the latest magnetometer
                \* iteration, kept until the thermometer view is left
    age,        \* history: loop iterations begun with wasInterrupt set since
                \* the handler last set it
    cnt         \* history: counters of handler runs and view advances

drvVars == <<pc, retpc, op, dev, addr, par>>
pinVars == <<P6SEL0, P6DIR, P6OUT>>
ucbVars == <<swrst, ctlw0, brw>>
bufVars == <<TXBUF, RXBUF, busy>>
simVars == <<regs, frame>>
numVars == <<nb0, nb1>>
irqVars == <<wasInterrupt, P1IFG, ie>>
histVars == <<staleHigh, irqInTxn>>
mainVars == <<mpc, state, prevState, isNewState, x, y, z>>
dispVars == <<title, shown>>
loopVars == <<hk, iterCur, iterPrev, src, got, lastMag>>
obsVars == <<title, shown, hk, iterCur, iterPrev, src, got, lastMag, age, cnt>>
vars == <<pc, retpc, op, dev, addr, par, P6SEL0, P6DIR, P6OUT, swrst, ctlw0, brw,
          TXBUF, RXBUF, busy, RDxBuffer, sraw, retval, wire, txns, regs, frame,
          test, nb0, nb1, wasInterrupt, P1IFG, ie, staleHigh, irqInTxn,
          mpc, state, prevState, isNewState, x, y, z,
          title, shown, hk, iterCur, iterPrev, src, got, lastMag, age, cnt>>

----------------------------------------------------------------------------
(* Pins.  CSAG is P6.0, CSM is P6.1; a line is driven low when the pin is  *)
(* an output and its P6OUT bit is 0.                                       *)

CSBit(device) == IF device = "AG" THEN 0 ELSE 1

DrivenLow(dir, out, bit) == bit \in dir /\ bit \notin out

CSLow(device) == DrivenLow(P6DIR, P6OUT, CSBit(device))

(* P6.2 is low.  Line 587 sets P6SEL0 bit 2: the pin is then UCB1STE, the  *)
(* slave-enable output of the eUSCI (4-pin master, MODE_1 with STEM, lines *)
(* 597-598), high while the eUSCI shifts a byte and low otherwise; the     *)
(* P6OUT bit drives the pin only while P6SEL0 bit 2 is clear.              *)
UCB1STE_Low(sel, dir, out, shifting) ==
    IF 2 \in sel THEN ~shifting ELSE DrivenLow(dir, out, 2)

(* the sub-devices whose chip-select is driven low *)
Selected(dir, out) == {d \in {"AG", "M"} : DrivenLow(dir, out, CSBit(d))}

FrameIdle == [n |-> 0, rw |-> FALSE, ad |-> 0, inc |-> FALSE]

(* the simulated device drops its frame when no chip-select is low *)
FrameAfter(dir, out) == IF Selected(dir, out) = {} THEN FrameIdle ELSE frame

----------------------------------------------------------------------------
(* State at power-on, before LSM9DS1_Init: the port is all inputs, P6OUT   *)
(* has not been written by the program (any value), the eUSCI is in reset. *)
(* Init is the state at the call of LSM9DS1_Init in main (final_main.c     *)
(* line 159): PBInt_Init has already enabled the button interrupt.         *)

InitCommon ==
    /\ retpc = "none" /\ op = "none"
    /\ dev = "AG" /\ addr = 0 /\ par = 0
    /\ P6SEL0 = {} /\ P6DIR = {}
    /\ swrst = TRUE /\ ctlw0 = "reset" /\ brw = 0
    /\ TXBUF = 0 /\ RXBUF = 0 /\ busy = FALSE
    /\ RDxBuffer = 0 /\ sraw = 0 /\ retval = 0
    /\ wire = <<>> /\ txns = <<>>
    /\ regs = <<>> /\ frame = FrameIdle
    /\ wasInterrupt = FALSE /\ P1IFG = {}
    /\ staleHigh = FALSE /\ irqInTxn = FALSE
    /\ x = 0 /\ y = 0 /\ z = 0
    /\ title = "none" /\ shown = <<>>
    /\ hk = 0 /\ iterCur = "boot" /\ iterPrev = "boot"
    /\ src = <<>> /\ got = <<>> /\ lastMag = <<>>
    /\ age = 0

(* The counters: runs of PORT1_IRQHandler that found wasInterrupt clear,   *)
(* view advances taken, and view advances in the current loop iteration.   *)
(* "late" records a run of the handler that fell between main's test and   *)
(* its clear of the flag. They count only in the specification that starts *)
(* them switched on.                                                       *)
CntOff == [on |-> FALSE, set |-> 0, adv |-> 0, it |-> 0, late |-> FALSE]
CntZero == [on |-> TRUE, set |-> 0, adv |-> 0, it |-> 0, late |-> FALSE]

(* Button presses counted before the button is left alone. *)
MaxPresses == 3

(* main() is not running the view loop: its locals are not yet assigned *)
NoMain ==
    /\ mpc = "none"
    /\ state = "none" /\ prevState = "none" /\ isNewState = FALSE
    /\ cnt = CntOff

NoTest == [d |-> "AG", a |-> 0, v |-> 0, n |-> 1]

Init ==
    /\ InitCommon
    /\ P6OUT \in SUBSET {0, 1, 2}
    /\ pc = "L587"
    /\ test = NoTest
    /\ nb0 = 0 /\ nb1 = 0
    /\ ie = TRUE
    /\ NoMain

----------------------------------------------------------------------------
(* SPI_transfer (lines 613-623), inlined at each call site in two halves:  *)
(* the store to TXBUF, and the return of RXBUF once the busy flag is clear.*)

SPI_transfer_begin(data) ==
    /\ TXBUF' = ToUint8(data)
    /\ busy' = TRUE
    /\ RXBUF' = RXBUF
    /\ wire' = Append(wire, [b |-> ToUint8(data), cs |-> Selected(P6DIR, P6OUT),
                             rx |-> -1])

(* variant: the function returns without polling the busy flag *)
SPI_transfer_nowait == TRUE

(* while (EUSCI_B1->STATW & EUSCI_B_STATW_SPI_BUSY) {}  (line 620) *)
SPI_transfer_done == ~busy

(* The eUSCI shifts the byte out and in; under Spec any byte arrives.      *)
HwShiftAny ==
    /\ busy /\ ~swrst
    /\ busy' = FALSE
    /\ RXBUF' \in RxBytes
    /\ TXBUF' = TXBUF
    /\ UNCHANGED <<drvVars, pinVars, ucbVars, RDxBuffer, sraw, retval, wire,
                   txns,
                   simVars, test, numVars, irqVars, histVars, mainVars, obsVars>>

----------------------------------------------------------------------------
(* write_SPI (lines 648-664)                                               *)

WriteAssert(device, out) ==
    IF device = "AG" THEN out \ {0, 2}
    ELSE IF device = "M" THEN out \ {1, 2}
    ELSE out

(* variant: the deselect raises P6.2 only *)
WriteDeassertSteOnly(device, out) ==
    IF device \in {"AG", "M"} THEN out \cup {2} ELSE out

WriteDeassert(device, out) ==
    IF device = "AG" THEN out \cup {0, 2}
    ELSE IF device = "M" THEN out \cup {1, 2}
    ELSE out

(* mutant of WriteAddrByte: the read flag set in a write *)
WriteAddrByteFlagged(address) == BitOr(address, 128)

WriteAddrByte(address) == address

write_SPI_select ==
    /\ pc = "wr_select"
    /\ P6OUT' = WriteAssert(dev, P6OUT)
    /\ frame' = FrameAfter(P6DIR, P6OUT')
    /\ pc' = IF dev \in {"AG", "M"} THEN "wr_addr" ELSE "wr_data"
    /\ txns' = Append(txns, [k |-> "W", d |-> dev, a |-> addr, n |-> par])
    /\ UNCHANGED <<retpc, op, dev, addr, par, P6SEL0, P6DIR, ucbVars, bufVars,
                   RDxBuffer, sraw, retval, wire, regs, test, numVars,
                   irqVars, histVars, mainVars, obsVars>>

write_SPI_addr_tx ==
    /\ pc = "wr_addr"
    /\ SPI_transfer_begin(WriteAddrByte(addr))
    /\ pc' = "wr_addr_wait"
    /\ UNCHANGED <<retpc, op, dev, addr, par, pinVars, ucbVars, RDxBuffer,
                   sraw,
                   retval, txns, simVars, test, numVars, irqVars, histVars,
                   mainVars, obsVars>>

write_SPI_addr_rx ==
    /\ pc = "wr_addr_wait"
    /\ SPI_transfer_done
    /\ pc' = "wr_data"
    /\ UNCHANGED <<retpc, op, dev, addr, par, pinVars, ucbVars, bufVars,
                   RDxBuffer,
                   sraw, retval, wire, txns, simVars, test, numVars, irqVars,
                   histVars, mainVars, obsVars>>

write_SPI_data_tx ==
    /\ pc = "wr_data"
    /\ SPI_transfer_begin(par)
    /\ pc' = "wr_data_wait"
    /\ UNCHANGED <<retpc, op, dev, addr, par, pinVars, ucbVars, RDxBuffer,
                   sraw,
                   retval, txns, simVars, test, numVars, irqVars, histVars,
                   mainVars, obsVars>>

(* variant: the byte returned by the data transfer is kept in RDxBuffer *)
write_SPI_data_rx_kept ==
    /\ pc = "wr_data_wait"
    /\ SPI_transfer_done
    /\ RDxBuffer' = RXBUF
    /\ pc' = "wr_desel"
    /\ UNCHANGED <<retpc, op, dev, addr, par, pinVars, ucbVars, bufVars, sraw,
                   retval, wire, txns, simVars, test, numVars, irqVars, histVars,
                   mainVars, obsVars>>

write_SPI_data_rx ==
    /\ pc = "wr_data_wait"
    /\ SPI_transfer_done
    /\ pc' = "wr_desel"
    /\ UNCHANGED <<retpc, op, dev, addr, par, pinVars, ucbVars, bufVars,
                   RDxBuffer,
                   sraw, retval, wire, txns, simVars, test, numVars, irqVars,
                   histVars, mainVars, obsVars>>

write_SPI_deselect ==
    /\ pc = "wr_desel"
    /\ P6OUT' = WriteDeassert(dev, P6OUT)
    /\ frame' = FrameAfter(P6DIR, P6OUT')
    /\ pc' = retpc
    /\ UNCHANGED <<retpc, op, dev, addr, par, P6SEL0, P6DIR, ucbVars, bufVars,
                   RDxBuffer, sraw, retval, wire, txns, regs, test, numVars,
                   irqVars, histVars, mainVars, obsVars>>

----------------------------------------------------------------------------
(* LSM9DS1_Init (lines 584-611)                                            *)

(* variant: the last two magnetometer writes in the other order *)
InitScriptSwapped ==
    << [d |-> "AG", a |-> CTRL_REG1_G,  v |-> 32],
       [d |-> "AG", a |-> CTRL_REG6_XL, v |-> 64],
       [d |-> "AG", a |-> CTRL_REG5_XL, v |-> 56],
       [d |-> "M",  a |-> CTRL_REG3_M,  v |-> 0],
       [d |-> "M",  a |-> CTRL_REG4_M,  v |-> 12],
       [d |-> "M",  a |-> CTRL_REG1_M,  v |-> 116] >>

InitScript ==
    << [d |-> "AG", a |-> CTRL_REG1_G,  v |-> 32],
       [d |-> "AG", a |-> CTRL_REG6_XL, v |-> 64],
       [d |-> "AG", a |-> CTRL_REG5_XL, v |-> 56],
       [d |-> "M",  a |-> CTRL_REG3_M,  v |-> 0],
       [d |-> "M",  a |-> CTRL_REG1_M,  v |-> 116],
       [d |-> "M",  a |-> CTRL_REG4_M,  v |-> 12] >>

InitLabels == <<"L605", "L606", "L607", "L608", "L609", "L610", "L611">>

LSM9DS1_Init_sel0 ==
    /\ pc = "L587"
    /\ P6SEL0' = P6SEL0 \cup {2, 3, 4, 5}
    /\ pc' = "L588"
    /\ op' = "Init"
    /\ UNCHANGED <<retpc, dev, addr, par, P6DIR, P6OUT, ucbVars, bufVars,
                   RDxBuffer,
                   sraw, retval, wire, txns, simVars, test, numVars, irqVars,
                   histVars, mainVars, obsVars>>

LSM9DS1_Init_dir ==
    /\ pc = "L588"
    /\ P6DIR' = P6DIR \cup {0, 1, 2}
    /\ frame' = FrameAfter(P6DIR', P6OUT)
    /\ pc' = "L589"
    /\ UNCHANGED <<retpc, op, dev, addr, par, P6SEL0, P6OUT, ucbVars, bufVars,
                   RDxBuffer, sraw, retval, wire, txns, regs, test, numVars,
                   irqVars, histVars, mainVars, obsVars>>

LSM9DS1_Init_out ==
    /\ pc = "L589"
    /\ P6OUT' = P6OUT \cup {0, 1, 2}
    /\ frame' = FrameAfter(P6DIR, P6OUT')
    /\ pc' = "L592"
    /\ UNCHANGED <<retpc, op, dev, addr, par, P6SEL0, P6DIR, ucbVars, bufVars,
                   RDxBuffer, sraw, retval, wire, txns, regs, test, numVars,
                   irqVars, histVars, mainVars, obsVars>>

(* variant: line 592 releases the eUSCI from reset *)
LSM9DS1_Init_swrst_release ==
    /\ pc = "L592"
    /\ swrst' = FALSE
    /\ pc' = "L593"
    /\ UNCHANGED <<retpc, op, dev, addr, par, pinVars, ctlw0, brw, bufVars,
                   RDxBuffer, sraw, retval, wire, txns, simVars, test,
                   numVars, irqVars, histVars, mainVars, obsVars>>

LSM9DS1_Init_swrst ==
    /\ pc = "L592"
    /\ swrst' = TRUE
    /\ pc' = "L593"
    /\ UNCHANGED <<retpc, op, dev, addr, par, pinVars, ctlw0, brw, bufVars,
                   RDxBuffer, sraw, retval, wire, txns, simVars, test,
                   numVars, irqVars, histVars, mainVars, obsVars>>

LSM9DS1_Init_ctlw0 ==
    /\ pc = "L593"
    /\ swrst' = TRUE
    /\ ctlw0' = "MST|SYNC|MSB|MODE_1|STEM|CKPH|SSEL__ACLK"
    /\ pc' = "L601"
    /\ UNCHANGED <<retpc, op, dev, addr, par, pinVars, brw, bufVars, RDxBuffer,
                   sraw, retval, wire, txns, simVars, test, numVars, irqVars,
                   histVars, mainVars, obsVars>>

LSM9DS1_Init_brw ==
    /\ pc = "L601"
    /\ brw' = 1
    /\ pc' = "L602"
    /\ UNCHANGED <<retpc, op, dev, addr, par, pinVars, swrst, ctlw0, bufVars,
                   RDxBuffer, sraw, retval, wire, txns, simVars, test,
                   numVars, irqVars, histVars, mainVars, obsVars>>

LSM9DS1_Init_enable ==
    /\ pc = "L602"
    /\ swrst' = FALSE
    /\ pc' = "L605"
    /\ UNCHANGED <<retpc, op, dev, addr, par, pinVars, ctlw0, brw, bufVars,
                   RDxBuffer, sraw, retval, wire, txns, simVars, test,
                   numVars, irqVars, histVars, mainVars, obsVars>>

LSM9DS1_Init_write ==
    \E i \in 1..6 :
        /\ pc = InitLabels[i]
        /\ dev' = InitScript[i].d
        /\ addr' = InitScript[i].a
        /\ par' = InitScript[i].v
        /\ retpc' = InitLabels[i + 1]
        /\ wire' = <<>>
        /\ irqInTxn' = FALSE
        /\ pc' = "wr_select"
        /\ UNCHANGED <<op, pinVars, ucbVars, bufVars, RDxBuffer, sraw, retval,
                       txns, simVars, test, numVars, irqVars, staleHigh,
                       mainVars, obsVars>>

LSM9DS1_Init_return ==
    /\ pc = "L611"
    /\ pc' = "idle"
    /\ UNCHANGED <<retpc, op, dev, addr, par, pinVars, ucbVars, bufVars,
                   RDxBuffer,
                   sraw, retval, wire, txns, simVars, test, numVars, irqVars,
                   histVars, mainVars, obsVars>>

----------------------------------------------------------------------------
(* read_SPI (lines 626-646)                                                *)

ReadAssert(device, out) ==
    IF device = "AG" THEN out \ {0, 2}
    ELSE IF device = "M" THEN out \ {1, 2}
    ELSE out

(* mutant of ReadDeassert: the M branch is missing *)
ReadDeassertAGOnly(device, out) == IF device = "AG" THEN out \cup {0, 2} ELSE out

ReadDeassert(device, out) ==
    IF device = "AG" THEN out \cup {0, 2}
    ELSE IF device = "M" THEN out \cup {1, 2}
    ELSE out

(* mutant of ReadAddrByte: address | 0x80 for both sub-devices *)
ReadAddrByteMsbOnly(device, address) == BitOr(address, 128)

(* the byte of the first transfer: address | 0x80 for AG, address | 0xC0   *)
(* for M (lines 629, 632)                                                  *)
ReadAddrByte(device, address) ==
    IF device = "AG" THEN BitOr(address, 128) ELSE BitOr(address, 192)

(* variant: the first byte is OR-ed into the low byte and the high byte   *)
(* of the previous read is kept                                            *)
ReadLowKeepHigh(rx) == ToUint16(BitOr((RDxBuffer \div 256) * 256, rx))

(* RDxBuffer = (0x0000 | SPI_transfer(0))  (line 635)                      *)
ReadLow(rx) == ToUint16(BitOr(0, rx))

(* mutant of ReadHigh: the second byte taken as the low byte *)
ReadHighSwapped(rx, buf) == ToUint16(BitOr(buf * 256, rx))

(* RDxBuffer = (SPI_transfer(0) << 8) | RDxBuffer  (line 638)              *)
ReadHigh(rx, buf) == ToUint16(BitOr(rx * 256, buf))

(* variant: two or more bytes asked for read a second byte *)
ReadsSecondAtLeast(bytesToRead) == bytesToRead >= 2

(* bytesToRead == 2 reads a second byte, anything else does not (line 637) *)
ReadsSecond(bytesToRead) == bytesToRead = 2

read_SPI_select ==
    /\ pc = "rd_select"
    /\ P6OUT' = ReadAssert(dev, P6OUT)
    /\ frame' = FrameAfter(P6DIR, P6OUT')
    /\ pc' = IF dev \in {"AG", "M"} THEN "rd_addr" ELSE "rd_b0"
    /\ txns' = Append(txns, [k |-> "R", d |-> dev, a |-> addr, n |-> par])
    /\ UNCHANGED <<retpc, op, dev, addr, par, P6SEL0, P6DIR, ucbVars, bufVars,
                   RDxBuffer, sraw, retval, wire, regs, test, numVars,
                   irqVars, histVars, mainVars, obsVars>>

read_SPI_addr_tx ==
    /\ pc = "rd_addr"
    /\ SPI_transfer_begin(ReadAddrByte(dev, addr))
    /\ pc' = "rd_addr_wait"
    /\ UNCHANGED <<retpc, op, dev, addr, par, pinVars, ucbVars, RDxBuffer,
                   sraw,
                   retval, txns, simVars, test, numVars, irqVars, histVars,
                   mainVars, obsVars>>

read_SPI_addr_rx ==
    /\ pc = "rd_addr_wait"
    /\ SPI_transfer_done
    /\ pc' = "rd_b0"
    /\ UNCHANGED <<retpc, op, dev, addr, par, pinVars, ucbVars, bufVars,
                   RDxBuffer,
                   sraw, retval, wire, txns, simVars, test, numVars, irqVars,
                   histVars, mainVars, obsVars>>

read_SPI_b0_tx ==
    /\ pc = "rd_b0"
    /\ SPI_transfer_begin(0)
    /\ pc' = "rd_b0_wait"
    /\ UNCHANGED <<retpc, op, dev, addr, par, pinVars, ucbVars, RDxBuffer,
                   sraw,
                   retval, txns, simVars, test, numVars, irqVars, histVars,
                   mainVars, obsVars>>

read_SPI_b0_rx ==
    /\ pc = "rd_b0_wait"
    /\ SPI_transfer_done
    /\ RDxBuffer' = ReadLow(RXBUF)
    /\ wire' = [wire EXCEPT ![Len(wire)].rx = RXBUF]
    /\ pc' = IF ReadsSecond(par) THEN "rd_b1" ELSE "rd_desel"
    /\ UNCHANGED <<retpc, op, dev, addr, par, pinVars, ucbVars, bufVars, sraw,
                   retval, txns, simVars, test, numVars, irqVars, histVars,
                   mainVars, obsVars>>

read_SPI_b1_tx ==
    /\ pc = "rd_b1"
    /\ SPI_transfer_begin(0)
    /\ pc' = "rd_b1_wait"
    /\ UNCHANGED <<retpc, op, dev, addr, par, pinVars, ucbVars, RDxBuffer,
                   sraw,
                   retval, txns, simVars, test, numVars, irqVars, histVars,
                   mainVars, obsVars>>

read_SPI_b1_rx ==
    /\ pc = "rd_b1_wait"
    /\ SPI_transfer_done
    /\ RDxBuffer' = ReadHigh(RXBUF, RDxBuffer)
    /\ wire' = [wire EXCEPT ![Len(wire)].rx = RXBUF]
    /\ pc' = "rd_desel"
    /\ UNCHANGED <<retpc, op, dev, addr, par, pinVars, ucbVars, bufVars, sraw,
                   retval, txns, simVars, test, numVars, irqVars, histVars,
                   mainVars, obsVars>>

read_SPI_deselect ==
    /\ pc = "rd_desel"
    /\ P6OUT' = ReadDeassert(dev, P6OUT)
    /\ frame' = FrameAfter(P6DIR, P6OUT')
    /\ pc' = retpc
    /\ UNCHANGED <<retpc, op, dev, addr, par, P6SEL0, P6DIR, ucbVars, bufVars,
                   RDxBuffer, sraw, retval, wire, txns, regs, test, numVars,
                   irqVars, histVars, mainVars, obsVars>>

ReadSteps ==
    \/ read_SPI_select \/ read_SPI_addr_tx \/ read_SPI_addr_rx
    \/ read_SPI_b0_tx \/ read_SPI_b0_rx \/ read_SPI_b1_tx \/ read_SPI_b1_rx
    \/ read_SPI_deselect

----------------------------------------------------------------------------
(* The public read functions (lines 668-761).                              *)

(* mutant of AccessorRead: every accessor reads the accelerometer's X register *)
AccessorReadCopied(a) == [d |-> "AG", a |-> OUT_X_L_XL, n |-> 2]

(* the read_SPI call each accessor makes *)
AccessorRead(a) ==
    CASE a = "XA"  -> [d |-> "AG", a |-> OUT_X_L_XL, n |-> 2]
      [] a = "YA"  -> [d |-> "AG", a |-> OUT_Y_L_XL, n |-> 2]
      [] a = "ZA"  -> [d |-> "AG", a |-> OUT_Z_L_XL, n |-> 2]
      [] a = "XG"  -> [d |-> "AG", a |-> OUT_X_L_G,  n |-> 2]
      [] a = "YG"  -> [d |-> "AG", a |-> OUT_Y_L_G,  n |-> 2]
      [] a = "ZG"  -> [d |-> "AG", a |-> OUT_Z_L_G,  n |-> 2]
      [] a = "XM"  -> [d |-> "M",  a |-> OUT_X_L_M,  n |-> 2]
      [] a = "YM"  -> [d |-> "M",  a |-> OUT_Y_L_M,  n |-> 2]
      [] a = "ZM"  -> [d |-> "M",  a |-> OUT_Z_L_M,  n |-> 2]
      [] a = "TMP" -> [d |-> "AG", a |-> OUT_TEMP_L, n |-> 2]

(* mutant of CastRaw: the cast to int16_t is missing *)
CastRawUnsigned(buf) == buf

(* int16_t v = (int16_t)RDxBuffer *)
CastRaw(buf) == ToInt16(buf)

(* accelX = (accelX * 61) / 1000, stored in an int16_t *)
AccelScale(s) == ToInt16(CDiv(s * 61, 1000))

(* gyroX = (gyroX * 875) / 100, stored in an int16_t *)
GyroScale(s) == ToInt16(CDiv(s * 875, 100))

(* magX = (magX * 14) / 100, stored in an int16_t *)
MagScale(s) == ToInt16(CDiv(s * 14, 100))

(* temp = (temp * 10) / 16, stored in an int16_t *)
TempScale(s) == ToInt16(CDiv(s * 10, 16))

AccessorScale(a, s) ==
    IF a \in {"XA", "YA", "ZA"} THEN AccelScale(s)
    ELSE IF a \in {"XG", "YG", "ZG"} THEN GyroScale(s)
    ELSE IF a \in {"XM", "YM", "ZM"} THEN MagScale(s)
    ELSE TempScale(s)

(* entry of a public function up to its read_SPI call; the two history    *)
(* variables are set here                                                  *)
CallEnter(o, d, a, n) ==
    /\ op' = o
    /\ dev' = d
    /\ addr' = a
    /\ par' = n
    /\ retpc' = "acc_ret"
    /\ pc' = "rd_select"
    /\ wire' = <<>> /\ txns' = <<>>
    /\ sraw' = 0 /\ retval' = 0
    /\ staleHigh' = (RDxBuffer >= 256)
    /\ irqInTxn' = FALSE
    /\ UNCHANGED <<pinVars, ucbVars, bufVars, RDxBuffer, simVars, test,
                   numVars,
                   irqVars>>

(* a call of LSM9DS1_XA .. LSM9DS1_TMP, up to its read_SPI call *)
AccessorEnter(a) ==
    CallEnter(a, AccessorRead(a).d, AccessorRead(a).a, AccessorRead(a).n)

LSM9DS1_accessor_call ==
    \E a \in Accessors :
        /\ pc = "idle"
        /\ AccessorEnter(a)
        /\ UNCHANGED <<mainVars, obsVars>>

(* the rest of the accessor: cast, scale, return *)
LSM9DS1_accessor_return ==
    /\ pc = "acc_ret"
    /\ op \in Accessors
    /\ sraw' = CastRaw(RDxBuffer)
    /\ retval' = AccessorScale(op, sraw')
    /\ pc' = "idle"
    /\ UNCHANGED <<retpc, op, dev, addr, par, pinVars, ucbVars, bufVars,
                   RDxBuffer,
                   wire, txns, simVars, test, numVars, irqVars, histVars,
                   mainVars, obsVars>>

(* variant: the identity read asks for two bytes *)
LSM9DS1_WHO_AM_I_call_word ==
    \E device \in ss_t :
        /\ pc = "idle"
        /\ CallEnter("WHO_AM_I", device, WHO_AM_I, 2)
        /\ UNCHANGED <<mainVars, obsVars>>

(* LSM9DS1_WHO_AM_I(device): read_SPI(device, WHO_AM_I, 1) *)
LSM9DS1_WHO_AM_I_call ==
    \E device \in ss_t :
        /\ pc = "idle"
        /\ CallEnter("WHO_AM_I", device, WHO_AM_I, 1)
        /\ UNCHANGED <<mainVars, obsVars>>

(* LSM9DS1_TEST_CMD(): read_SPI(AG, CTRL_REG5_XL, 1) *)
LSM9DS1_TEST_CMD_call ==
    /\ pc = "idle"
    /\ CallEnter("TEST_CMD", "AG", CTRL_REG5_XL, 1)
    /\ UNCHANGED <<mainVars, obsVars>>

(* variant: an identity byte other than the documented ones makes the     *)
(* function read again                                                     *)
LSM9DS1_raw_return_retry ==
    /\ pc = "acc_ret"
    /\ op \in {"WHO_AM_I", "TEST_CMD"}
    /\ IF op = "WHO_AM_I" /\ RDxBuffer \notin {104, 61}
       THEN /\ pc' = "rd_select"
            /\ wire' = <<>>
            /\ UNCHANGED retval
       ELSE /\ pc' = "idle"
            /\ retval' = RDxBuffer
            /\ UNCHANGED wire
    /\ UNCHANGED <<retpc, op, dev, addr, par, pinVars, ucbVars, bufVars,
                   RDxBuffer,
                   sraw, txns, simVars, test, numVars, irqVars, histVars,
                   mainVars, obsVars>>

(* return RDxBuffer; *)
LSM9DS1_raw_return ==
    /\ pc = "acc_ret"
    /\ op \in {"WHO_AM_I", "TEST_CMD"}
    /\ retval' = RDxBuffer
    /\ pc' = "idle"
    /\ UNCHANGED <<retpc, op, dev, addr, par, pinVars, ucbVars, bufVars,
                   RDxBuffer,
                   sraw, wire, txns, simVars, test, numVars, irqVars,
                   histVars, mainVars, obsVars>>

PublicCalls ==
    \/ LSM9DS1_accessor_call \/ LSM9DS1_accessor_return
    \/ LSM9DS1_WHO_AM_I_call \/ LSM9DS1_TEST_CMD_call \/ LSM9DS1_raw_return

InitSteps ==
    \/ LSM9DS1_Init_sel0 \/ LSM9DS1_Init_dir \/ LSM9DS1_Init_out
    \/ LSM9DS1_Init_swrst \/ LSM9DS1_Init_ctlw0 \/ LSM9DS1_Init_brw
    \/ LSM9DS1_Init_enable \/ LSM9DS1_Init_write \/ LSM9DS1_Init_return

WriteSteps ==
    \/ write_SPI_select \/ write_SPI_addr_tx \/ write_SPI_addr_rx
    \/ write_SPI_data_tx \/ write_SPI_data_rx \/ write_SPI_deselect

----------------------------------------------------------------------------
(* The simulated LSM9DS1: a register file per sub-device behind the SPI    *)
(* framing the source documents (part_000 lines 35-44 and 152-153): the    *)
(* first byte of a frame is the command, most significant bit first:       *)
(*   AG: bit 7 = R/W (1 = read), bits 6..0 = address; the address advances *)
(*       after each data byte when IF_ADD_INC of CTRL_REG8 is 1 (line 523) *)
(*   M:  bit 7 = R/W, bit 6 = increment address, bits 5..0 = address.      *)

(* registers the source documents as read-only ("R") *)
ReadOnlyRegs(d) ==
    IF d = "AG" THEN {15, 20, 21, 22, 23, 38, 39, 47} \cup (24..29) \cup (40..45)
    ELSE {15, 39, 49} \cup (40..45)

(* register values after power-on: the identification bytes, and           *)
(* IF_ADD_INC set in CTRL_REG8 of AG                                       *)
RegReset(d, a) ==
    IF a = WHO_AM_I THEN (IF d = "AG" THEN 104 ELSE 61)
    ELSE IF d = "AG" /\ a = CTRL_REG8 THEN 4
    ELSE 0

RegVal(d, a) == IF <<d, a>> \in DOMAIN regs THEN regs[<<d, a>>] ELSE RegReset(d, a)

RegWrite(d, a, v) ==
    IF a \in ReadOnlyRegs(d) THEN regs
    ELSE [k \in (DOMAIN regs) \cup {<<d, a>>} |-> IF k = <<d, a>> THEN v ELSE regs[k]]

DevAddr(d, cmd) == IF d = "AG" THEN cmd % 128 ELSE cmd % 64

DevInc(d, cmd) ==
    IF d = "AG" THEN (RegVal("AG", CTRL_REG8) \div 4) % 2 = 1
    ELSE (cmd \div 64) % 2 = 1

DevNext(d, f) ==
    [f EXCEPT !.n = 2,
              !.ad = IF f.inc THEN (f.ad + 1) % (IF d = "AG" THEN 128 ELSE 64)
                     ELSE f.ad]

(* The eUSCI shifts a byte out to, and one in from, the simulated device.  *)
HwShiftSim ==
    /\ busy /\ ~swrst
    /\ busy' = FALSE
    /\ TXBUF' = TXBUF
    /\ LET S == Selected(P6DIR, P6OUT) IN
         IF Cardinality(S) # 1
         THEN /\ RXBUF' \in IdleLevels
              /\ UNCHANGED simVars
         ELSE LET d == CHOOSE s \in S : TRUE IN
              IF frame.n = 0
              THEN /\ frame' = [n |-> 1, rw |-> TXBUF >= 128,
                                ad |-> DevAddr(d, TXBUF), inc |-> DevInc(d, TXBUF)]
                   /\ RXBUF' \in IdleLevels
                   /\ regs' = regs
              ELSE IF frame.rw
              THEN /\ RXBUF' = RegVal(d, frame.ad)
                   /\ regs' = regs
                   /\ frame' = DevNext(d, frame)
              ELSE /\ RXBUF' \in IdleLevels
                   /\ regs' = RegWrite(d, frame.ad, TXBUF)
                   /\ frame' = DevNext(d, frame)
    /\ UNCHANGED <<drvVars, pinVars, ucbVars, RDxBuffer, sraw, retval, wire,
                   txns,
                   test, numVars, irqVars, histVars, mainVars, obsVars>>

(* The round trip: write_SPI(d, a, v), then read_SPI(d, a, n), then keep   *)
(* RDxBuffer as the result.                                                *)
test_write ==
    /\ pc = "idle"
    /\ \E d \in {"AG", "M"}, a \in Addr7, v \in WrBytes, n \in ByteCounts :
        /\ test' = [d |-> d, a |-> a, v |-> v, n |-> n]
        /\ dev' = d /\ addr' = a /\ par' = v
    /\ op' = "test"
    /\ retpc' = "t_read"
    /\ pc' = "wr_select"
    /\ wire' = <<>> /\ txns' = <<>>
    /\ irqInTxn' = FALSE
    /\ UNCHANGED <<pinVars, ucbVars, bufVars, RDxBuffer, sraw, retval, simVars,
                   numVars, irqVars, staleHigh, mainVars, obsVars>>

test_read ==
    /\ pc = "t_read"
    /\ dev' = test.d /\ addr' = test.a /\ par' = test.n
    /\ retpc' = "t_check"
    /\ pc' = "rd_select"
    /\ wire' = <<>>
    /\ irqInTxn' = FALSE
    /\ UNCHANGED <<op, pinVars, ucbVars, bufVars, RDxBuffer, sraw, retval,
                   txns,
                   simVars, test, numVars, irqVars, staleHigh, mainVars, obsVars>>

test_check ==
    /\ pc = "t_check"
    /\ retval' = RDxBuffer
    /\ pc' = "t_done"
    /\ UNCHANGED <<retpc, op, dev, addr, par, pinVars, ucbVars, bufVars,
                   RDxBuffer,
                   sraw, wire, txns, simVars, test, numVars, irqVars,
                   histVars, mainVars, obsVars>>

RoundTrip == test_write \/ test_read \/ test_check

----------------------------------------------------------------------------
(* The push button (final_main.c).  PBInt_Init arms a falling-edge         *)
(* interrupt on P1.5; the hardware sets P1IFG bit 5 on each press, and     *)
(* PORT1_IRQHandler runs when the flag is set and the interrupt is         *)
(* enabled.  The handler runs to completion between two steps of main.     *)

PB == 5

(* labels of read_SPI and write_SPI, from entry to the deselect *)
TxnLabels == {"rd_select", "rd_addr", "rd_addr_wait", "rd_b0", "rd_b0_wait",
              "rd_b1", "rd_b1_wait", "rd_desel",
              "wr_select", "wr_addr", "wr_addr_wait", "wr_data",
              "wr_data_wait", "wr_desel"}

(* the button is pressed: a falling edge on P1.5 latches the flag *)
P1_5_edge ==
    /\ PB \notin P1IFG
    /\ cnt.on => cnt.set < MaxPresses
    /\ P1IFG' = P1IFG \cup {PB}
    /\ UNCHANGED <<drvVars, pinVars, ucbVars, bufVars, RDxBuffer, sraw, retval,
                   wire, txns, simVars, test, numVars, wasInterrupt, ie,
                   histVars, mainVars, obsVars>>

(* variant: the handler also releases both chip-selects *)
PORT1_IRQHandler_release ==
    /\ ie
    /\ PB \in P1IFG
    /\ wasInterrupt' = TRUE
    /\ P1IFG' = {}
    /\ P6OUT' = P6OUT \cup {0, 1, 2}
    /\ irqInTxn' = (irqInTxn \/ pc \in TxnLabels)
    /\ UNCHANGED <<drvVars, P6SEL0, P6DIR, ucbVars, bufVars, RDxBuffer, sraw,
                   retval, wire, txns, simVars, test, numVars, ie, staleHigh,
                   mainVars, obsVars>>

(* wasInterrupt = true; P1IFG &= 0x00; *)
PORT1_IRQHandler ==
    /\ ie
    /\ PB \in P1IFG
    /\ wasInterrupt' = TRUE
    /\ P1IFG' = {}
    /\ irqInTxn' = (irqInTxn \/ pc \in TxnLabels)
    /\ age' = IF wasInterrupt THEN age ELSE 0
    /\ cnt' = IF ~cnt.on THEN cnt
              ELSE IF ~wasInterrupt THEN [cnt EXCEPT !.set = @ + 1]
              ELSE IF mpc = "clear" THEN [cnt EXCEPT !.late = TRUE]
              ELSE cnt
    /\ UNCHANGED <<drvVars, pinVars, ucbVars, bufVars, RDxBuffer, sraw, retval,
                   wire, txns, simVars, test, numVars, ie, staleHigh,
                   mainVars, dispVars, loopVars>>

Button == P1_5_edge \/ PORT1_IRQHandler

----------------------------------------------------------------------------
(* main (final_main.c lines 144-260): start-up, then the view loop.  Of    *)
(* the OLED the model keeps the title and the values handed to it; the     *)
(* buzzer sounds in the entry housekeeping only.  main is at mpc while the *)
(* driver is not running (pc = "idle"); a call into the driver moves pc    *)
(* and main waits for it.                                                  *)

Views == {"ACCELEROMETER", "GYROSCOPE", "MAGNETOMETER", "THERMOMETER"}

(* Bytes the bus shifts in while main runs. *)
MainRxBytes == {1, 240}

(* variant: the magnetometer view goes back to the accelerometer view *)
NextViewShort(s) ==
    CASE s = "ACCELEROMETER" -> "GYROSCOPE"
      [] s = "GYROSCOPE"     -> "MAGNETOMETER"
      [] s = "MAGNETOMETER"  -> "ACCELEROMETER"
      [] s = "THERMOMETER"   -> "ACCELEROMETER"

(* the assignment to state in each case's exit housekeeping *)
(* (lines 195, 213, 231, 251)                                              *)
NextView(s) ==
    CASE s = "ACCELEROMETER" -> "GYROSCOPE"
      [] s = "GYROSCOPE"     -> "MAGNETOMETER"
      [] s = "MAGNETOMETER"  -> "THERMOMETER"
      [] s = "THERMOMETER"   -> "ACCELEROMETER"

(* variant: the gyroscope case reads the accelerometer again *)
ViewAccessorsAccelTwice(s) ==
    CASE s = "ACCELEROMETER" -> <<"XA", "YA", "ZA">>
      [] s = "GYROSCOPE"     -> <<"XA", "YA", "ZA">>
      [] s = "MAGNETOMETER"  -> <<"XM", "YM", "ZM">>
      [] s = "THERMOMETER"   -> <<"TMP">>

(* the accessors each case calls, in order: getAccelData, getGyroData,     *)
(* getMagData, and LSM9DS1_TMP alone in the thermometer case               *)
ViewAccessors(s) ==
    CASE s = "ACCELEROMETER" -> <<"XA", "YA", "ZA">>
      [] s = "GYROSCOPE"     -> <<"XG", "YG", "ZG">>
      [] s = "MAGNETOMETER"  -> <<"XM", "YM", "ZM">>
      [] s = "THERMOMETER"   -> <<"TMP">>

(* the title each case writes in its entry housekeeping *)
ViewTitle(s) ==
    CASE s = "ACCELEROMETER" -> "Accelerometer"
      [] s = "GYROSCOPE"     -> "Gyroscope"
      [] s = "MAGNETOMETER"  -> "Magnetometer"
      [] s = "THERMOMETER"   -> "Thermometer"

(* the device argument of each case's displayData call; the thermometer   *)
(* case prints with SSD1306_OutSFix1 directly                              *)
ViewUnit(s) ==
    CASE s = "ACCELEROMETER" -> "A"
      [] s = "GYROSCOPE"     -> "G"
      [] s = "MAGNETOMETER"  -> "M"
      [] s = "THERMOMETER"   -> "none"

(* the value handed to the display for a reading v: (x / 100) for the      *)
(* accelerometer and the gyroscope, (x * 10) for the magnetometer, both    *)
(* converted to displayData's int16_t parameter; x itself for the          *)
(* thermometer                                                             *)
DisplayArg(s, v) ==
    IF s \in {"ACCELEROMETER", "GYROSCOPE"} THEN ToInt16(CDiv(v, 100))
    ELSE IF s = "MAGNETOMETER" THEN ToInt16(v * 10)
    ELSE v

(* what a case hands to the display from x, y, z *)
DisplayCall(s, vx, vy, vz) ==
    [unit |-> ViewUnit(s),
     vals |-> IF s = "THERMOMETER" THEN <<DisplayArg(s, vx)>>
              ELSE <<DisplayArg(s, vx), DisplayArg(s, vy), DisplayArg(s, vz)>>]

InitMainCommon ==
    /\ InitCommon
    /\ P6OUT \in SUBSET {0, 1, 2}
    /\ pc = "idle"
    /\ test = NoTest
    /\ nb0 = 0 /\ nb1 = 0
    /\ ie = FALSE
    /\ mpc = "m145"
    /\ state = "none" /\ prevState = "none" /\ isNewState = FALSE

InitMain ==
    /\ InitMainCommon
    /\ cnt = CntOff

(* the same start with the counters switched on *)
InitCount ==
    /\ InitMainCommon
    /\ cnt = CntZero

(* a step of main that touches nothing of the driver *)
MainOnly ==
    UNCHANGED <<drvVars, pinVars, ucbVars, bufVars, RDxBuffer, sraw, retval,
                wire, txns, simVars, test, numVars, histVars>>

(* lines 145-149: watchdog, clock, DisableInterrupts() *)
main_boot ==
    /\ mpc = "m145"
    /\ ie' = FALSE
    /\ mpc' = "m150"
    /\ MainOnly
    /\ UNCHANGED <<wasInterrupt, P1IFG, state, prevState, isNewState, x, y, z,
                   obsVars>>

(* line 150, PBInt_Init (lines 123-136): the P1.5 flag is cleared and the  *)
(* interrupt enabled                                                       *)
PBInt_Init ==
    /\ mpc = "m150"
    /\ P1IFG' = P1IFG \ {PB}
    /\ ie' = TRUE
    /\ mpc' = "m153"
    /\ MainOnly
    /\ UNCHANGED <<wasInterrupt, state, prevState, isNewState, x, y, z,
                   obsVars>>

(* lines 153-156: OLED start-up, cleared screen, and the 500 ms delay *)
main_oled ==
    /\ mpc = "m153"
    /\ title' = "blank"
    /\ mpc' = "m159"
    /\ MainOnly
    /\ UNCHANGED <<irqVars, state, prevState, isNewState, x, y, z, shown,
                   loopVars, age, cnt>>

(* line 159: LSM9DS1_Init() is called *)
main_call_Init ==
    /\ mpc = "m159"
    /\ pc = "idle"
    /\ pc' = "L587"
    /\ mpc' = "m162"
    /\ UNCHANGED <<retpc, op, dev, addr, par, pinVars, ucbVars, bufVars,
                   RDxBuffer, sraw, retval, wire, txns, simVars, test, numVars,
                   irqVars, histVars, state, prevState, isNewState, x, y, z,
                   obsVars>>

(* line 162, once LSM9DS1_Init has returned: piezo_init() *)
main_piezo ==
    /\ mpc = "m162"
    /\ pc = "idle"
    /\ mpc' = "m165"
    /\ MainOnly
    /\ UNCHANGED <<irqVars, state, prevState, isNewState, x, y, z, obsVars>>

(* variant: the two initial values exchanged *)
main_start_swapped ==
    /\ mpc = "m165"
    /\ state' = "GYROSCOPE"
    /\ prevState' = "ACCELEROMETER"
    /\ mpc' = "m176"
    /\ MainOnly
    /\ UNCHANGED <<irqVars, isNewState, x, y, z, obsVars>>

(* lines 165-166 *)
main_start ==
    /\ mpc = "m165"
    /\ state' = "ACCELEROMETER"
    /\ prevState' = "GYROSCOPE"
    /\ mpc' = "m176"
    /\ MainOnly
    /\ UNCHANGED <<irqVars, isNewState, x, y, z, obsVars>>

(* variant: prevState is not saved for the next iteration *)
main_loop_head_nosave ==
    /\ mpc = "m176"
    /\ isNewState' = (state # prevState)
    /\ prevState' = prevState
    /\ mpc' = "m179"
    /\ iterCur' = state /\ iterPrev' = iterCur
    /\ src' = <<>> /\ got' = <<>> /\ shown' = <<>>
    /\ age' = IF wasInterrupt THEN (IF age < 2 THEN age + 1 ELSE age) ELSE 0
    /\ cnt' = [cnt EXCEPT !.it = 0]
    /\ MainOnly
    /\ UNCHANGED <<irqVars, state, x, y, z, title, hk, lastMag>>

(* lines 176-177; a new iteration begins *)
main_loop_head ==
    /\ mpc = "m176"
    /\ isNewState' = (state # prevState)
    /\ prevState' = state
    /\ mpc' = "m179"
    /\ iterCur' = state /\ iterPrev' = iterCur
    /\ src' = <<>> /\ got' = <<>> /\ shown' = <<>>
    /\ age' = IF wasInterrupt THEN (IF age < 2 THEN age + 1 ELSE age) ELSE 0
    /\ cnt' = [cnt EXCEPT !.it = 0]
    /\ MainOnly
    /\ UNCHANGED <<irqVars, state, x, y, z, title, hk, lastMag>>

(* line 179, the switch, with the entry housekeeping of the case taken     *)
(* (clear the screen, write the title, play the note) when isNewState;     *)
(* the default branch assigns state                                        *)
main_switch ==
    /\ mpc = "m179"
    /\ IF state \in Views
       THEN /\ mpc' = "get1"
            /\ UNCHANGED state
            /\ IF isNewState
               THEN /\ title' = ViewTitle(state)
                    /\ hk' = IF hk < 2 THEN hk + 1 ELSE hk
               ELSE UNCHANGED <<title, hk>>
       ELSE /\ mpc' = "m258"
            /\ state' = "ACCELEROMETER"
            /\ UNCHANGED <<title, hk>>
    /\ MainOnly
    /\ UNCHANGED <<irqVars, prevState, isNewState, x, y, z, shown, iterCur,
                   iterPrev, src, got, lastMag, age, cnt>>

(* x = LSM9DS1_X..(), y = LSM9DS1_Y..(), z = LSM9DS1_Z..(): the call *)
main_get ==
    \E i \in 1..3 :
        /\ mpc = <<"get1", "get2", "get3">>[i]
        /\ pc = "idle"
        /\ AccessorEnter(ViewAccessors(state)[i])
        /\ mpc' = <<"set1", "set2", "set3">>[i]
        /\ src' = Append(src, ViewAccessors(state)[i])
        /\ UNCHANGED <<state, prevState, isNewState, x, y, z, dispVars, hk,
                       iterCur, iterPrev, got, lastMag, age, cnt>>

(* variant: the thermometer case stores its reading in x, y and z *)
main_set_all ==
    \E i \in 1..3 :
        /\ mpc = <<"set1", "set2", "set3">>[i]
        /\ pc = "idle"
        /\ x' = IF i = 1 THEN retval ELSE x
        /\ y' = IF i = 2 \/ state = "THERMOMETER" THEN retval ELSE y
        /\ z' = IF i = 3 \/ state = "THERMOMETER" THEN retval ELSE z
        /\ mpc' = IF i = Len(ViewAccessors(state)) THEN "disp"
                  ELSE <<"get2", "get3">>[i]
        /\ got' = Append(got, retval)
        /\ lastMag' = IF state = "MAGNETOMETER" /\ i = 2 THEN <<retval>>
                      ELSE IF state = "MAGNETOMETER" /\ i = 3
                           THEN Append(lastMag, retval)
                      ELSE lastMag
        /\ MainOnly
        /\ UNCHANGED <<irqVars, state, prevState, isNewState, dispVars, hk,
                       iterCur, iterPrev, src, age, cnt>>

(* ... and the assignment of the returned value to x, y or z; the          *)
(* thermometer case reads x only                                           *)
main_set ==
    \E i \in 1..3 :
        /\ mpc = <<"set1", "set2", "set3">>[i]
        /\ pc = "idle"
        /\ x' = IF i = 1 THEN retval ELSE x
        /\ y' = IF i = 2 THEN retval ELSE y
        /\ z' = IF i = 3 THEN retval ELSE z
        /\ mpc' = IF i = Len(ViewAccessors(state)) THEN "disp"
                  ELSE <<"get2", "get3">>[i]
        /\ got' = Append(got, retval)
        /\ lastMag' = IF state = "MAGNETOMETER" /\ i = 2 THEN <<retval>>
                      ELSE IF state = "MAGNETOMETER" /\ i = 3
                           THEN Append(lastMag, retval)
                      ELSE lastMag
        /\ MainOnly
        /\ UNCHANGED <<irqVars, state, prevState, isNewState, dispVars, hk,
                       iterCur, iterPrev, src, age, cnt>>

(* displayData(...) or the thermometer's three display calls *)
main_display ==
    /\ mpc = "disp"
    /\ shown' = DisplayCall(state, x, y, z)
    /\ mpc' = "test"
    /\ MainOnly
    /\ UNCHANGED <<irqVars, state, prevState, isNewState, x, y, z, title,
                   loopVars, age, cnt>>

(* variant: the flag is not tested in the iteration that enters a view *)
main_test_settled ==
    /\ mpc = "test"
    /\ mpc' = IF wasInterrupt /\ ~isNewState THEN "clear" ELSE "m258"
    /\ MainOnly
    /\ UNCHANGED <<irqVars, state, prevState, isNewState, x, y, z, obsVars>>

(* if (wasInterrupt) *)
main_test ==
    /\ mpc = "test"
    /\ mpc' = IF wasInterrupt THEN "clear" ELSE "m258"
    /\ MainOnly
    /\ UNCHANGED <<irqVars, state, prevState, isNewState, x, y, z, obsVars>>

(* variant: the flag is left set when the advance is taken *)
main_clear_keep ==
    /\ mpc = "clear"
    /\ wasInterrupt' = wasInterrupt
    /\ mpc' = "next"
    /\ age' = 0
    /\ MainOnly
    /\ UNCHANGED <<P1IFG, ie, state, prevState, isNewState, x, y, z, dispVars,
                   loopVars, cnt>>

(* wasInterrupt = false; *)
main_clear ==
    /\ mpc = "clear"
    /\ wasInterrupt' = FALSE
    /\ mpc' = "next"
    /\ age' = 0
    /\ MainOnly
    /\ UNCHANGED <<P1IFG, ie, state, prevState, isNewState, x, y, z, dispVars,
                   loopVars, cnt>>

(* state = <the next view>; break; *)
main_next ==
    /\ mpc = "next"
    /\ state' = NextView(state)
    /\ mpc' = "m258"
    /\ hk' = 0
    /\ lastMag' = IF state = "THERMOMETER" THEN <<>> ELSE lastMag
    /\ cnt' = IF cnt.on THEN [cnt EXCEPT !.adv = @ + 1, !.it = @ + 1] ELSE cnt
    /\ MainOnly
    /\ UNCHANGED <<irqVars, prevState, isNewState, x, y, z, dispVars, iterCur,
                   iterPrev, src, got, age>>

(* line 258: Clock_Delay1ms(100), then the next iteration *)
main_delay ==
    /\ mpc = "m258"
    /\ mpc' = "m176"
    /\ MainOnly
    /\ UNCHANGED <<irqVars, state, prevState, isNewState, x, y, z, obsVars>>

MainSteps ==
    \/ main_boot \/ PBInt_Init \/ main_oled \/ main_call_Init \/ main_piezo
    \/ main_start \/ main_loop_head \/ main_switch \/ main_get \/ main_set
    \/ main_display \/ main_test \/ main_clear \/ main_next \/ main_delay

(* The eUSCI shifts the byte out and in while main runs. *)
HwShiftMain ==
    /\ busy /\ ~swrst
    /\ busy' = FALSE
    /\ RXBUF' \in MainRxBytes
    /\ TXBUF' = TXBUF
    /\ UNCHANGED <<drvVars, pinVars, ucbVars, RDxBuffer, sraw, retval, wire,
                   txns,
                   simVars, test, numVars, irqVars, histVars, mainVars, obsVars>>

----------------------------------------------------------------------------
(* The read path and an accessor's arithmetic applied to two received      *)
(* bytes: lines 635 and 638 of read_SPI, then the accessor's cast, scale   *)
(* and return; then the expression main's case for that accessor hands to  *)
(* the display.                                                            *)

(* the view whose case calls accessor a *)
AccessorView(a) ==
    CHOOSE s \in Views : \E i \in 1..Len(ViewAccessors(s)) :
                             ViewAccessors(s)[i] = a

InitNum ==
    /\ InitCommon
    /\ P6OUT = {}
    /\ pc = "num"
    /\ test = NoTest
    /\ nb0 \in Bytes /\ nb1 \in Bytes
    /\ ie = FALSE
    /\ NoMain

num_eval ==
    /\ pc = "num"
    /\ \E a \in Accessors :
        /\ op' = a
        /\ RDxBuffer' = ReadHigh(nb1, ReadLow(nb0))
        /\ sraw' = CastRaw(RDxBuffer')
        /\ retval' = AccessorScale(a, sraw')
        /\ shown' = [unit |-> ViewUnit(AccessorView(a)),
                     vals |-> <<DisplayArg(AccessorView(a), retval')>>]
    /\ pc' = "num_done"
    /\ UNCHANGED <<retpc, dev, addr, par, pinVars, ucbVars, bufVars, wire,
                   txns, simVars, test, numVars, irqVars, histVars, mainVars,
                   title, loopVars, age, cnt>>

----------------------------------------------------------------------------
Next ==
    InitSteps \/ WriteSteps \/ ReadSteps \/ PublicCalls \/ HwShiftAny \/ Button

Spec == Init /\ [][Next]_vars

(* the simulated device: initialization, then identity reads and the     *)
(* write-then-read round trip                                              *)
NextSim ==
    \/ InitSteps \/ WriteSteps \/ ReadSteps \/ RoundTrip \/ HwShiftSim
    \/ LSM9DS1_WHO_AM_I_call \/ LSM9DS1_raw_return

SpecSim == Init /\ [][NextSim]_vars

(* The processor keeps executing the function it is in (a call is made or *)
(* not as the caller pleases), and the eUSCI finishes every shift it has   *)
(* started.                                                                *)
CpuStep ==
    \/ InitSteps \/ WriteSteps \/ ReadSteps
    \/ LSM9DS1_accessor_return \/ LSM9DS1_raw_return

SpecLive == Init /\ [][Next]_vars /\ WF_vars(CpuStep) /\ WF_vars(HwShiftAny)

(* the whole program: main with the driver it calls and the button *)
NextMain ==
    \/ MainSteps \/ InitSteps \/ WriteSteps \/ ReadSteps
    \/ LSM9DS1_accessor_return \/ HwShiftMain \/ Button

SpecMain == InitMain /\ [][NextMain]_vars

(* The processor keeps executing main and the driver functions main calls, *)
(* and the eUSCI finishes every shift it has started; the button is        *)
(* pressed or not as the user pleases.                                     *)
CpuMain ==
    \/ MainSteps \/ InitSteps \/ WriteSteps \/ ReadSteps
    \/ LSM9DS1_accessor_return

SpecMainLive ==
    InitMain /\ [][NextMain]_vars /\ WF_vars(CpuMain) /\ WF_vars(HwShiftMain)

(* the whole program with the counters running *)
SpecCount == InitCount /\ [][NextMain]_vars

NextNum == num_eval

SpecNum == InitNum /\ [][NextNum]_vars

----------------------------------------------------------------------------
(* Properties.                                                             *)

(* labels of read_SPI / write_SPI from the first transfer to the deselect  *)
ReadBody == {"rd_addr", "rd_addr_wait", "rd_b0", "rd_b0_wait", "rd_b1",
             "rd_b1_wait", "rd_desel"}
WriteBody == {"wr_addr", "wr_addr_wait", "wr_data", "wr_data_wait", "wr_desel"}

(* labels at which read_SPI or write_SPI has just returned to its caller   *)
AfterRead == {"acc_ret", "t_check"}
AfterWrite == {"L606", "L607", "L608", "L609", "L610", "L611", "t_read"}

(* the bytes put on the bus in this call, in order *)
WireBytes == [i \in 1..Len(wire) |-> wire[i].b]

(* the 16-bit value two received bytes stand for, and its signed reading *)
Raw16(b0, b1) == b0 + 256 * b1
Signed16(u) == IF u >= 32768 THEN u - 65536 ELSE u

(* q is n/d truncated toward zero (d > 0) *)
Abs(v) == IF v < 0 THEN -v ELSE v
IsTruncQuot(q, n, d) ==
    /\ Abs(q) * d <= Abs(n)
    /\ Abs(n) < (Abs(q) + 1) * d
    /\ (n >= 0 => q >= 0)
    /\ (n <= 0 => q <= 0)

(* C1: in every reachable state at most one of the chip-select lines CSAG  *)
(* (P6.0) and CSM (P6.1) is driven low.                                    *)
C1_ChipSelectExclusive == ~(CSLow("AG") /\ CSLow("M"))

(* The same, for the states after LSM9DS1_Init's pin setup (line 589).     *)
ExclusiveAfterPinSetup ==
    pc \notin {"L587", "L588", "L589"} => ~(CSLow("AG") /\ CSLow("M"))

(* C2: for AG and for M the addressed device's chip-select is low before   *)
(* the first byte transfer of a register read or write, stays low through  *)
(* the last one (every byte is put on the bus, and every state between the *)
(* transfers is passed, with that chip-select and no other driven low),    *)
(* and is high again when the operation has returned.                      *)
C2_ChipSelectFraming ==
    dev \in {"AG", "M"} =>
        /\ pc \in ReadBody \cup WriteBody => Selected(P6DIR, P6OUT) = {dev}
        /\ pc \in ReadBody \cup WriteBody \cup AfterRead \cup AfterWrite =>
               \A i \in 1..Len(wire) : wire[i].cs = {dev}
        /\ pc \in AfterRead \cup AfterWrite => ~CSLow(dev)

C2_Witness ==
    /\ pc = "acc_ret" /\ dev = "M" /\ Len(wire) = 3
    /\ \A i \in 1..3 : wire[i].cs = {"M"}
    /\ ~CSLow("M")

(* C3 as claimed: for both sub-devices the first byte of a register read   *)
(* of the 7-bit address A is A | 0x80, that is A + 128.                    *)
C3_ReadFirstByteMsbOnly ==
    (pc \in ReadBody \ {"rd_addr"} /\ dev \in {"AG", "M"} /\ addr \in Addr7)
        => wire[1].b = addr + 128

(* C3 amended: the first byte of a register read of the 7-bit address A is *)
(* A | 0x80 on AG and A | 0xC0 on M: on M bit 6, the magnetometer's        *)
(* address-increment flag, is set in every read as well.                   *)
C3_ReadFraming ==
    (pc \in ReadBody \ {"rd_addr"} /\ dev \in {"AG", "M"} /\ addr \in Addr7)
        => /\ dev = "AG" => wire[1].b = addr + 128
           /\ dev = "M" => wire[1].b = 192 + (addr % 64)

C3_Witness ==
    /\ pc = "rd_addr_wait" /\ dev = "M" /\ addr = 5
    /\ wire[1].b = 197

(* C4: a register write puts exactly two bytes on the bus between select   *)
(* and deselect, the address byte unchanged and then the data byte, and    *)
(* the address byte of every write has its most significant bit 0.         *)
C4_WriteFraming ==
    /\ pc \in WriteBody => Len(wire) <= 2
    /\ (pc \in WriteBody /\ Len(wire) >= 1) => wire[1].b = addr /\ wire[1].b < 128
    /\ pc \in {"wr_desel"} \cup AfterWrite =>
           /\ WireBytes = <<addr, par>>
           /\ \A i \in 1..2 : wire[i].cs = {dev}

C4_Witness ==
    /\ pc = "L611" /\ op = "Init" /\ dev = "M"
    /\ WireBytes = <<35, 12>>

(* C5: a 2-byte read assembles little-endian: with b0 received first and   *)
(* b1 second, RDxBuffer = b0 + 256*b1.                                     *)
C5_LittleEndian == pc = "num_done" => RDxBuffer = nb0 + 256 * nb1

C5_Witness == pc = "num_done" /\ nb0 = 52 /\ nb1 = 18 /\ RDxBuffer = 4660

(* The same in the stepped read_SPI, for the bytes SPI_transfer returned.  *)
ReadAssemblesInOrder ==
    pc \in {"rd_desel"} \cup AfterRead =>
        IF ReadsSecond(par)
        THEN RDxBuffer = wire[Len(wire) - 1].rx + 256 * wire[Len(wire)].rx
        ELSE RDxBuffer = wire[Len(wire)].rx

(* C6: for every signed 16-bit raw value r the acceleration accessors      *)
(* return r*61/1000, the magnetic-field accessors r*14/100 and the         *)
(* temperature accessor r*10/16, each truncated toward zero, unwrapped.    *)
C6_TruncatingScale ==
    pc = "num_done" =>
        LET r == Signed16(Raw16(nb0, nb1)) IN
        /\ op \in {"XA", "YA", "ZA"} => IsTruncQuot(retval, r * 61, 1000)
        /\ op \in {"XM", "YM", "ZM"} => IsTruncQuot(retval, r * 14, 100)
        /\ op = "TMP" => IsTruncQuot(retval, r * 10, 16)

C6_Witness ==
    /\ pc = "num_done" /\ op = "ZA"
    /\ Signed16(Raw16(nb0, nb1)) = -1000 /\ retval = -61

(* C7: for every signed 16-bit raw value r the angular-rate accessors      *)
(* return r*875/100 truncated toward zero.                                 *)
C7_GyroScale ==
    (pc = "num_done" /\ op \in {"XG", "YG", "ZG"}) =>
        IsTruncQuot(retval, Signed16(Raw16(nb0, nb1)) * 875, 100)

(* C8: every accessor reads an assembled value u >= 0x8000 as u - 65536    *)
(* before scaling; temperature bytes [0x60, 0xFF] (raw -160) give -100.    *)
C8_SignReinterpretation ==
    pc = "num_done" =>
        LET u == Raw16(nb0, nb1) IN
        /\ u >= 32768 => sraw = u - 65536
        /\ u < 32768 => sraw = u
        /\ (u >= 32768 /\ op \notin {"XG", "YG", "ZG"}) => retval <= 0
        /\ (op = "TMP" /\ nb0 = 96 /\ nb1 = 255) => retval = -100

C8_Witness ==
    /\ pc = "num_done" /\ op = "TMP" /\ nb0 = 96 /\ nb1 = 255
    /\ sraw = -160 /\ retval = -100

(* C9: against the simulated register file, a register write of byte d     *)
(* followed by a one-byte read of the same 7-bit address on the same       *)
(* sub-device returns d, for every address of a register that is not       *)
(* read-only.                                                              *)
C9_RoundTrip ==
    (pc = "t_done" /\ test.n = 1
        /\ DevAddr(test.d, test.a) \notin ReadOnlyRegs(test.d))
        => retval = test.v

C9_Witness ==
    /\ pc = "t_done" /\ test.n = 1 /\ test.d = "M" /\ test.a = 5
    /\ test.v = 165 /\ retval = 165

(* the read each accessor is to make: sub-device and start address *)
C10_Expected(a) ==
    CASE a = "XA"  -> <<"AG", 40>>
      [] a = "YA"  -> <<"AG", 42>>
      [] a = "ZA"  -> <<"AG", 44>>
      [] a = "XG"  -> <<"AG", 24>>
      [] a = "YG"  -> <<"AG", 26>>
      [] a = "ZG"  -> <<"AG", 28>>
      [] a = "XM"  -> <<"M", 40>>
      [] a = "YM"  -> <<"M", 42>>
      [] a = "ZM"  -> <<"M", 44>>
      [] a = "TMP" -> <<"AG", 21>>

(* C10: each typed accessor makes exactly one register read per call, of   *)
(* 2 bytes, on its fixed sub-device and start address, and no write.       *)
C10_OneReadPerAccessor ==
    op \in Accessors =>
        /\ Len(txns) <= 1
        /\ \A i \in 1..Len(txns) :
               txns[i] = [k |-> "R", d |-> C10_Expected(op)[1],
                          a |-> C10_Expected(op)[2], n |-> 2]
        /\ pc \in {"acc_ret", "idle"} => Len(txns) = 1 /\ Len(wire) = 3

C10_Witness ==
    /\ pc = "idle" /\ op = "ZM"
    /\ txns = <<[k |-> "R", d |-> "M", a |-> 44, n |-> 2]>>
    /\ Len(wire) = 3

(* C11: LSM9DS1_WHO_AM_I(device) for AG or M makes one 1-byte read of      *)
(* register 0x0F with that device's chip-select low and returns the        *)
(* received byte unscaled, a value in 0..255; against the simulated device *)
(* the AG identity read returns 0x68.                                      *)
C11_ReadIdentity ==
    (pc = "idle" /\ op = "WHO_AM_I" /\ dev \in {"AG", "M"}) =>
        /\ txns = <<[k |-> "R", d |-> dev, a |-> 15, n |-> 1]>>
        /\ Len(wire) = 2
        /\ \A i \in 1..2 : wire[i].cs = {dev}
        /\ wire[1].b >= 128 /\ wire[1].b % 64 = 15
        /\ wire[2].b = 0
        /\ retval = wire[2].rx
        /\ retval \in 0..255
        /\ (dev = "AG" => retval = 104)

C11_Witness ==
    /\ pc = "idle" /\ op = "WHO_AM_I" /\ dev = "AG"
    /\ Len(wire) = 2 /\ wire[2].rx = 104 /\ retval = 104

(* the six writes of the initialization, as sub-device, address, value *)
C12_Script ==
    << [k |-> "W", d |-> "AG", a |-> 16, n |-> 32],
       [k |-> "W", d |-> "AG", a |-> 32, n |-> 64],
       [k |-> "W", d |-> "AG", a |-> 31, n |-> 56],
       [k |-> "W", d |-> "M",  a |-> 34, n |-> 0],
       [k |-> "W", d |-> "M",  a |-> 32, n |-> 116],
       [k |-> "W", d |-> "M",  a |-> 35, n |-> 12] >>

(* C12: whatever bytes the bus returns, LSM9DS1_Init makes exactly the six *)
(* register writes AG 0x10:=0x20, AG 0x20:=0x40, AG 0x1F:=0x38,            *)
(* M 0x22:=0x00, M 0x20:=0x74, M 0x23:=0x0C in this order and no read:     *)
(* the transactions made so far are always a prefix of that script, each   *)
(* finished write has put its address and value on the bus, and all six    *)
(* are made when the initialization returns.                               *)
C12_InitScript ==
    op = "Init" =>
        /\ Len(txns) <= 6
        /\ \A i \in 1..Len(txns) : txns[i] = C12_Script[i]
        /\ pc \in {"L606", "L607", "L608", "L609", "L610", "L611", "idle"} =>
               WireBytes = <<C12_Script[Len(txns)].a, C12_Script[Len(txns)].n>>
        /\ pc \in {"L611", "idle"} => Len(txns) = 6
        /\ RDxBuffer = 0

C12_Witness ==
    /\ pc = "idle" /\ op = "Init"
    /\ Len(txns) = 6
    /\ txns[6] = [k |-> "W", d |-> "M", a |-> 35, n |-> 12]
    /\ WireBytes = <<35, 12>>

(* the bytes the current call took from the bus, in order (the byte that  *)
(* arrives during the address transfer is discarded by the code)           *)
C13_Received ==
    LET taken == SelectSeq(wire, LAMBDA e : e.rx # -1)
    IN  [i \in 1..Len(taken) |-> taken[i].rx]

(* multiplier and divisor of each typed accessor *)
C13_Factor(a) ==
    IF a \in {"XA", "YA", "ZA"} THEN <<61, 1000>>
    ELSE IF a \in {"XG", "YG", "ZG"} THEN <<875, 100>>
    ELSE IF a \in {"XM", "YM", "ZM"} THEN <<14, 100>>
    ELSE <<10, 16>>

(* v is the int16_t that results from storing the truncated quotient of    *)
(* s * m / d                                                               *)
C13_IsScaled(v, s, m, d) ==
    /\ v \in -32768..32767
    /\ \E k \in -8..8 : IsTruncQuot(v + 65536 * k, s * m, d)

(* C13: the value a public function returns is a function of the bytes     *)
(* received during that call alone, whatever RDxBuffer held before: a      *)
(* 1-byte read returns the received byte with high byte 0 even after a     *)
(* 2-byte read, a typed accessor returns the scaled signed reading of its  *)
(* two bytes, and on return RDxBuffer holds the raw value of this call.    *)
C13_Stateless ==
    (pc = "idle" /\ op \in Accessors \cup {"WHO_AM_I", "TEST_CMD"}) =>
        LET r == C13_Received IN
        IF op \in Accessors
        THEN /\ Len(r) = 2
             /\ RDxBuffer = Raw16(r[1], r[2])
             /\ C13_IsScaled(retval, Signed16(Raw16(r[1], r[2])),
                             C13_Factor(op)[1], C13_Factor(op)[2])
        ELSE /\ Len(r) = 1
             /\ RDxBuffer = r[1]
             /\ retval = r[1]
             /\ retval \div 256 = 0

(* a 1-byte read has returned after a call that left a nonzero high byte   *)
C13_Witness ==
    /\ pc = "idle" /\ op = "WHO_AM_I" /\ staleHigh
    /\ Len(C13_Received) = 1
    /\ retval = C13_Received[1] /\ RDxBuffer = retval

(* C14: RDxBuffer changes only in the two assignments of read_SPI (lines   *)
(* 635 and 638), each taken once SPI_transfer has returned: no step of     *)
(* write_SPI, of SPI_transfer, of LSM9DS1_Init or of PORT1_IRQHandler      *)
(* changes it, and it is still 0 when the initialization has returned.     *)
C14_ScratchFrame ==
    /\ [][RDxBuffer' # RDxBuffer =>
              /\ pc \in {"rd_b0_wait", "rd_b1_wait"}
              /\ pc' \in {"rd_b1", "rd_desel"}
              /\ UNCHANGED <<bufVars, irqVars>>]_vars
    /\ [](op \in {"none", "Init"} => RDxBuffer = 0)

(* the initialization has returned and the handler ran during its last     *)
(* register write                                                          *)
C14_Witness ==
    /\ pc = "idle" /\ op = "Init" /\ Len(txns) = 6
    /\ wasInterrupt /\ irqInTxn
    /\ RDxBuffer = 0

(* the command byte and dummy bytes a read of the current call's register *)
(* puts on the bus when nothing interrupts it                              *)
C15_ReadBytes ==
    LET cmd == IF dev = "AG" THEN <<addr + 128>>
               ELSE IF dev = "M" THEN <<(addr % 64) + 192>>
               ELSE <<>>
    IN  cmd \o (IF par = 2 THEN <<0, 0>> ELSE <<0>>)

(* C15: a run of PORT1_IRQHandler changes wasInterrupt and P1IFG and       *)
(* nothing of the driver (position, chip-select pins, eUSCI registers,     *)
(* TXBUF/RXBUF/busy, RDxBuffer, bytes sent so far); and a call during      *)
(* whose transaction the handler ran has sent the same bytes and returns   *)
(* the same function of the received bytes as an uninterrupted call.       *)
C15_HandlerTransparent ==
    /\ [][(P1IFG # {} /\ P1IFG' = {}) =>
              /\ wasInterrupt'
              /\ UNCHANGED <<drvVars, pinVars, ucbVars, bufVars, RDxBuffer,
                             sraw, retval, wire, txns, simVars>>]_vars
    /\ []((/\ pc = "idle" /\ irqInTxn
           /\ op \in Accessors \cup {"WHO_AM_I", "TEST_CMD"}) =>
              /\ WireBytes = C15_ReadBytes
              /\ \A i \in 1..Len(wire) : wire[i].cs = {dev} \cap {"AG", "M"}
              /\ Len(C13_Received) = par
              /\ RDxBuffer = IF par = 2
                             THEN Raw16(C13_Received[1], C13_Received[2])
                             ELSE C13_Received[1]
              /\ op \notin Accessors => retval = RDxBuffer
              /\ op \in Accessors =>
                     C13_IsScaled(retval, Signed16(RDxBuffer),
                                  C13_Factor(op)[1], C13_Factor(op)[2]))

(* a magnetometer read has returned and the handler ran inside its         *)
(* transaction                                                             *)
C15_Witness ==
    /\ pc = "idle" /\ op = "XM" /\ irqInTxn
    /\ wasInterrupt /\ P1IFG = {}
    /\ WireBytes = <<232, 0, 0>>

(* positions inside SPI_transfer's polling loop *)
C16_Polling == {"rd_addr_wait", "rd_b0_wait", "rd_b1_wait",
                "wr_addr_wait", "wr_data_wait"}

(* C16: SPI_transfer returns only once the busy flag reads clear: while    *)
(* the flag is set the caller is in the polling loop, and as long as it    *)
(* stays set no step moves the caller or assigns a return value (no        *)
(* timeout, no error path).  When every started shift finishes, every      *)
(* call of a public function and the initialization return.                *)
C16_Blocking ==
    /\ [](busy => pc \in C16_Polling)
    /\ [][(busy /\ busy') => UNCHANGED <<drvVars, retval, sraw,
                                         RDxBuffer>>]_vars
    /\ (pc # "idle") ~> (pc = "idle")

(* an accessor waits in the polling loop for its first data byte *)
C16_Witness ==
    /\ pc = "rd_b0_wait" /\ busy
    /\ op = "TMP" /\ retval = 0
    /\ Len(wire) = 2 /\ wire[2].rx = -1

(* every position the driver's code has: there is no error position *)
C17_Positions ==
    {"L587", "L588", "L589", "L592", "L593", "L601", "L602",
     "L605", "L606", "L607", "L608", "L609", "L610", "L611",
     "wr_select", "wr_addr", "wr_addr_wait", "wr_data", "wr_data_wait",
     "wr_desel",
     "rd_select", "rd_addr", "rd_addr_wait", "rd_b0", "rd_b0_wait", "rd_b1",
     "rd_b1_wait", "rd_desel", "acc_ret", "idle"}

(* C17: whatever bytes arrive (0x00 or 0xFF idle patterns, an identity     *)
(* byte other than 0x68) a public read function makes its one transaction  *)
(* once, with no byte sent twice, and returns an ordinary value: the       *)
(* received byte itself for the 1-byte functions, an int16_t for the typed *)
(* accessors; the driver is never at a position outside its normal code.   *)
C17_NoErrorPath ==
    /\ pc \in C17_Positions
    /\ op \in Accessors \cup {"WHO_AM_I", "TEST_CMD"} =>
           /\ Len(txns) <= 1
           /\ Len(wire) <= par + (IF dev \in {"AG", "M"} THEN 1 ELSE 0)
           /\ pc = "idle" =>
                  /\ Len(txns) = 1
                  /\ Len(wire) = par + (IF dev \in {"AG", "M"} THEN 1 ELSE 0)
                  /\ \A i \in 1..Len(C13_Received) : C13_Received[i] \in Bytes
                  /\ IF op \in Accessors
                     THEN retval \in -32768..32767
                     ELSE retval = wire[Len(wire)].rx /\ retval \in Bytes

(* the identity read of AG has returned the idle pattern 0xFF as its value *)
C17_Witness ==
    /\ pc = "idle" /\ op = "WHO_AM_I" /\ dev = "AG"
    /\ Len(txns) = 1 /\ Len(wire) = 2
    /\ wire[2].rx = 255 /\ retval = 255

(* the view changes of the cycle *)
C18_Cycle ==
    {<<"ACCELEROMETER", "GYROSCOPE">>, <<"GYROSCOPE", "MAGNETOMETER">>,
     <<"MAGNETOMETER", "THERMOMETER">>, <<"THERMOMETER", "ACCELEROMETER">>}

(* C18: from its first assignment on, state is one of the four views; the  *)
(* switch always finds one of the four cases (never the default branch);   *)
(* and every change of state is a step of the cycle ACCELEROMETER ->       *)
(* GYROSCOPE -> MAGNETOMETER -> THERMOMETER -> ACCELEROMETER.              *)
C18_ViewCycle ==
    /\ [](state \in Views \cup {"none"})
    /\ [](mpc \notin {"m145", "m150", "m153", "m159", "m162", "m165"} =>
              state \in Views)
    /\ [][state' # state =>
              \/ state = "none" /\ state' = "ACCELEROMETER"
              \/ <<state, state'>> \in C18_Cycle]_vars

(* the cycle has wrapped around: the thermometer view has just given way   *)
(* to the accelerometer view                                               *)
C18_Witness ==
    /\ state = "ACCELEROMETER" /\ prevState = "THERMOMETER"
    /\ mpc = "m258"

(* C19: between select and deselect a read on AG or M makes 3 transfers    *)
(* when bytesToRead is 2 and 2 transfers for every other value (0, 1 and   *)
(* 3 alike): the command byte, then dummy bytes 0x00; with a value other   *)
(* than 2 the result is the one received byte, as for bytesToRead 1.       *)
C19_TransferCount ==
    (dev \in {"AG", "M"} /\ pc \in ReadBody \cup AfterRead) =>
        LET total == IF par = 2 THEN 3 ELSE 2 IN
        /\ Len(wire) <= total
        /\ pc \in {"rd_desel"} \cup AfterRead => Len(wire) = total
        /\ \A i \in 2..Len(wire) : wire[i].b = 0
        /\ \A i \in 1..Len(wire) : wire[i].cs = {dev}
        /\ (pc \in AfterRead /\ par # 2) => RDxBuffer = wire[2].rx

(* a read asked for 3 bytes has finished with two transfers *)
C19_Witness ==
    /\ pc = "t_check" /\ test.n = 3 /\ par = 3
    /\ Len(wire) = 2 /\ wire[2].b = 0
    /\ RDxBuffer = wire[2].rx

(* C20: for each of AG, M, A and G passed to LSM9DS1_WHO_AM_I, every byte  *)
(* of the call goes out with a chip-select driven low, and no shift is in  *)
(* progress while both chip-selects are high.                              *)
C20_FramedTransfers ==
    op = "WHO_AM_I" =>
        /\ \A i \in 1..Len(wire) : wire[i].cs # {}
        /\ busy => Selected(P6DIR, P6OUT) # {}

(* the same for AG and M alone *)
FramedOnAGAndM ==
    (op = "WHO_AM_I" /\ dev \in {"AG", "M"}) =>
        /\ \A i \in 1..Len(wire) : wire[i].cs = {dev}
        /\ busy => Selected(P6DIR, P6OUT) = {dev}

(* C21: for every raw reading, the value main hands to displayData for an *)
(* accelerometer, gyroscope or magnetometer reading lies in -9999..9999.   *)
C21_DisplayRange ==
    (pc = "num_done" /\ op # "TMP") =>
        \A i \in 1..Len(shown.vals) : shown.vals[i] \in -9999..9999

(* the same for the accelerometer and the gyroscope alone, whose readings  *)
(* are divided by 100                                                      *)
DisplayRangeAccelGyro ==
    (pc = "num_done" /\ op \in {"XA", "YA", "ZA", "XG", "YG", "ZG"}) =>
        \A i \in 1..Len(shown.vals) : shown.vals[i] \in -327..327

(* C22: presses are latched, not counted. The view advances taken, plus    *)
(* one if wasInterrupt is set, plus one for an advance whose flag is       *)
(* already cleared (line 194) and whose state assignment (line 195) is the *)
(* next statement, equal the runs of the handler that found the flag       *)
(* clear; a run that finds it set adds nothing; and no loop iteration      *)
(* advances twice.                                                         *)
C22_Latched ==
    cnt.on =>
        /\ cnt.adv + (IF wasInterrupt THEN 1 ELSE 0)
                   + (IF mpc = "next" THEN 1 ELSE 0) = cnt.set
        /\ cnt.it <= 1

(* the statement without the advance in progress: it fails between the     *)
(* clear of the flag and the assignment of state                           *)
C22_LatchedEveryState ==
    cnt.on => cnt.adv + (IF wasInterrupt THEN 1 ELSE 0) = cnt.set

(* two advances taken, a third under way, and a handler run that fell      *)
(* between the test and the clear of the flag                              *)
C22_Witness ==
    /\ cnt.on /\ cnt.late
    /\ cnt.adv = 2 /\ cnt.set = MaxPresses
    /\ mpc = "next"

(* C23: when every started bus transfer completes, a wasInterrupt set by   *)
(* the handler is eventually cleared and the view advanced to the next     *)
(* one; the flag never stays set past the loop iteration that begins after *)
(* it was set (age counts the iterations begun with the flag set, iterCur  *)
(* is the view the iteration began in).                                    *)
C23_Advance ==
    /\ [](wasInterrupt => age <= 1)
    /\ wasInterrupt ~> ~wasInterrupt
    /\ wasInterrupt ~> (mpc = "m258" /\ state = NextView(iterCur))

(* the flag, set after the test of the previous iteration, is found set by *)
(* the test of the iteration that followed                                 *)
C23_Witness ==
    /\ wasInterrupt /\ age = 1
    /\ mpc = "clear"
    /\ state = "MAGNETOMETER" /\ ~isNewState

(* the positions of main between the switch and the end of a case *)
C24_Body == {"get1", "get2", "get3", "set1", "set2", "set3",
             "disp", "test", "clear", "next"}

(* C24: the entry housekeeping (cleared screen, title, beep) runs exactly  *)
(* once per entry into a view: hk, the runs since the view was entered, is *)
(* one in every case body, with the view's title on the screen, and a run  *)
(* happens only in an iteration whose state differs from that of the       *)
(* iteration before (the first iteration follows boot); isNewState is true *)
(* in an iteration exactly when the state differs from the previous        *)
(* iteration's.                                                            *)
C24_Housekeeping ==
    /\ [](hk <= 1)
    /\ [](mpc \in C24_Body => hk = 1 /\ title = ViewTitle(state))
    /\ [](mpc \in C24_Body \cup {"m179", "m258"} =>
             (isNewState <=> iterCur # iterPrev))
    /\ [][hk' # hk /\ hk' # 0 => isNewState /\ iterCur # iterPrev]_vars

(* a later iteration in the view entered by the first button press: no     *)
(* housekeeping this time, the title still stands                          *)
C24_Witness ==
    /\ mpc = "disp" /\ state = "GYROSCOPE"
    /\ ~isNewState /\ iterPrev = "GYROSCOPE"
    /\ hk = 1 /\ title = ViewTitle("GYROSCOPE")

(* C25: the first view after boot is the accelerometer view, whenever the  *)
(* button is pressed: the first value state gets and the view of the first *)
(* loop iteration are ACCELEROMETER, and a step from ACCELEROMETER to      *)
(* GYROSCOPE is taken only after the accelerometer's housekeeping has run  *)
(* and its three axes have been read in that iteration.                    *)
C25_FirstView ==
    /\ [][state = "none" /\ state' # "none" =>
              state' = "ACCELEROMETER"]_vars
    /\ [](iterPrev = "boot" /\ iterCur # "boot" =>
              iterCur = "ACCELEROMETER")
    /\ [][state = "ACCELEROMETER" /\ state' # state =>
              /\ state' = "GYROSCOPE"
              /\ hk = 1 /\ title = ViewTitle("ACCELEROMETER")
              /\ src = <<"XA", "YA", "ZA">> /\ got = <<x, y, z>>]_vars

(* the first iteration, with a button press taken during initialization:   *)
(* the flag was set before the loop began, and the iteration has done the  *)
(* housekeeping and the read before it clears the flag                     *)
C25_Witness ==
    /\ iterPrev = "boot" /\ iterCur = "ACCELEROMETER"
    /\ mpc = "clear" /\ wasInterrupt /\ age = 1
    /\ hk = 1 /\ src = <<"XA", "YA", "ZA">>

(* the sensor of a view: the registers its values come from, X, Y, Z *)
C26_Sensor(s) ==
    CASE s = "ACCELEROMETER" -> <<"XA", "YA", "ZA">>
      [] s = "GYROSCOPE"     -> <<"XG", "YG", "ZG">>
      [] s = "MAGNETOMETER"  -> <<"XM", "YM", "ZM">>
      [] s = "THERMOMETER"   -> <<"TMP">>

(* C26: what a case has handed to the display was read in the same loop    *)
(* iteration from the sensor of the current state: the accessors called in *)
(* this iteration are those of the state's sensor, in X, Y, Z order (the   *)
(* temperature alone for the thermometer), the values shown are the values *)
(* they returned, scaled for the display, and the title is the state's.    *)
C26_ShownIsCurrent ==
    mpc \in {"test", "clear", "next"} =>
        /\ iterCur = state
        /\ src = C26_Sensor(state)
        /\ Len(got) = Len(src)
        /\ title = ViewTitle(state)
        /\ shown.unit = ViewUnit(state)
        /\ shown.vals = [i \in 1..Len(got) |-> DisplayArg(state, got[i])]

(* the first iteration of the gyroscope view after accelerometer values    *)
(* were read into x, y, z: the display call has been made                  *)
C26_Witness ==
    /\ mpc = "test" /\ state = "GYROSCOPE" /\ isNewState
    /\ iterPrev = "ACCELEROMETER"
    /\ src = <<"XG", "YG", "ZG">> /\ shown.unit = "G"
    /\ Len(got) = 3 /\ got[1] # 0 /\ got = <<x, y, z>>

(* C27: once LSM9DS1_Init has set up the pins (line 589), in every state   *)
(* in which no read_SPI or write_SPI is under way, the states a public     *)
(* function is called from and returns to among them, P6.0 (CSAG) and P6.1 *)
(* (CSM) are outputs at the high level.                                    *)
C27_IdleHigh ==
    (pc \notin {"L587", "L588", "L589"} \cup TxnLabels) =>
        /\ {0, 1} \subseteq P6DIR
        /\ {0, 1} \subseteq P6OUT

(* an accessor has returned after a magnetometer read that followed the    *)
(* six writes of the initialization                                        *)
C27_Witness ==
    /\ pc = "idle" /\ op = "ZM" /\ dev = "M"
    /\ Len(wire) = 3 /\ wire[3].cs = {"M"}
    /\ {0, 1} \subseteq P6OUT

(* C28: in every state after the pin setup P6.2 (UCB1STE) is low exactly   *)
(* when CSAG or CSM is driven low.                                         *)
C28_SteReflectsOr ==
    pc \notin {"L587", "L588", "L589"} =>
        (UCB1STE_Low(P6SEL0, P6DIR, P6OUT, busy /\ ~swrst)
            <=> (CSLow("AG") \/ CSLow("M")))

(* What the code does keep: bit 2 of the P6OUT latch, which it writes with *)
(* every select and deselect, is clear exactly when bit 0 or bit 1 is.     *)
SteLatchReflectsOr ==
    pc \notin {"L587", "L588", "L589"} =>
        (2 \notin P6OUT <=> (0 \notin P6OUT \/ 1 \notin P6OUT))

(* C29: the order of LSM9DS1_Init.  Every write to the eUSCI's registers   *)
(* finds CSAG and CSM driven high; the control word and the bit-rate       *)
(* divider change only while the eUSCI is held in reset; no byte is put on *)
(* the bus and no transaction made while it is in reset, and it does not   *)
(* go back into reset; the six configuration writes are made with the      *)
(* eUSCI released and configured.                                          *)
C29_InitOrder ==
    /\ [][ucbVars' # ucbVars =>
              /\ {0, 1} \subseteq P6DIR /\ {0, 1} \subseteq P6OUT]_vars
    /\ [][<<ctlw0, brw>>' # <<ctlw0, brw>> => swrst /\ swrst']_vars
    /\ [](swrst => ~busy /\ wire = <<>> /\ txns = <<>>)
    /\ [][busy' /\ ~busy => ~swrst /\ ~swrst']_vars
    /\ [][~swrst => ~swrst']_vars
    /\ [](pc \in {"L605", "L606", "L607", "L608", "L609", "L610"}
             \/ (op = "Init" /\ pc \in TxnLabels) =>
               /\ ~swrst /\ brw = 1
               /\ ctlw0 = "MST|SYNC|MSB|MODE_1|STEM|CKPH|SSEL__ACLK")

(* the initialization has returned: six writes made, the eUSCI released *)
C29_Witness ==
    /\ pc = "idle" /\ op = "Init"
    /\ Len(txns) = 6 /\ txns[1].k = "W"
    /\ ~swrst /\ brw = 1 /\ {0, 1} \subseteq P6OUT

(* C30: in the THERMOMETER view an iteration assigns x alone, and only the *)
(* temperature the accessor returned; no step taken in that view changes y *)
(* or z, which hold the Y and Z readings of the last magnetometer          *)
(* iteration (lastMag) for as long as the view lasts.                      *)
C30_ThermometerFrame ==
    /\ [][state = "THERMOMETER" => UNCHANGED <<y, z>>]_vars
    /\ [][state = "THERMOMETER" /\ x' # x =>
              mpc = "set1" /\ op = "TMP" /\ x' = retval]_vars
    /\ [](state = "THERMOMETER" => lastMag = <<y, z>>)

(* a later iteration of the thermometer view: x is the temperature just    *)
(* read, y and z are still the magnetometer's                              *)
C30_Witness ==
    /\ state = "THERMOMETER" /\ ~isNewState /\ mpc = "test"
    /\ got = <<x>> /\ src = <<"TMP">>
    /\ lastMag = <<y, z>> /\ y # x

====
